---- MODULE Spec2Model ----
(***************************************************************************)
(* Model of the strict-types type-system engine (rust-stens):              *)
(*   - TypeLayout::to_vesper, the layout reconstructor                     *)
(*     (src/src/layout/linear.rs);                                         *)
(*   - TypeSystem, its bounded ordered map and its identity                *)
(*     (src/src/typesys/type_sys.rs, src/src/typesys/id.rs);               *)
(*   - SystemBuilder import/finalize (called by src/tests/reflect.rs).     *)
(***************************************************************************)
EXTENDS Integers, Sequences, FiniteSets, TLC

\* ------------------------------------------------------------------ bounds

\* Longest layout (number of TypeInfo items) explored.
MaxItems == 4

\* Largest depth an item of an arbitrary layout carries.
MaxDepth == 3

\* Capacity of a node's bounded child collection (TExpr::content), scaled
\* down; the code only relies on push failing once the collection is full.
MaxChildren == 2

\* Number of distinct semantic ids (SemId values) in the universe.
NumIds == 3

\* Number of distinct library ids in the universe.
NumLibs == 2

\* Largest number of ids a single type refers to.
MaxRefs == 1

\* Number of type names a symbolic library and its dependencies may use.
NumNames == 3

\* Number of bytes of a TypeSysId (32 in the code), scaled down.
IdLen == 2

\* Largest number of origin library names tried one by one on SymTy::with;
\* it lies above the documented limit.
MaxOrig == 258

\* The limit the documentation and the panic message of SymTy::with give
\* for the number of origin libraries.
DocOrigLimit == 256

\* Capacity of a SmallOrdSet, the type of SymTy.orig: u16::MAX.
SmallMax == 65535

\* Greatest length of an identifier (32 in the code), scaled down.
IdentMax == 3

\* Greatest number of sizes summed at once.
MaxSumLen == 2

\* Number of values of a u16, the payload of Size::Fixed.
U16_MOD == 65536

\* Capacity of the confined map of a TypeSystem (2^24 - 1 in the code),
\* scaled down.
MaxTypes == 2

\* Width in bytes of count_types() (a u24) and of count_libs() (not visible
\* in the sources; taken as one byte).
CountTypesBytes == 3

CountLibsBytes == 1

\* usize::MAX, the value `depth - 1` wraps to for depth = 0 when overflow
\* checks are off.  Only compared with path.len(), so any value above every
\* reachable path length behaves like the real one.
USIZE_MAX == 2147483647

\* ----------------------------------------------------------------- helpers

None == 0

Min(S) == CHOOSE x \in S : \A y \in S : x <= y

RECURSIVE SortedSeq(_)
SortedSeq(S) == IF S = {} THEN <<>> ELSE <<Min(S)>> \o SortedSeq(S \ {Min(S)})

Range(s) == {s[i] : i \in DOMAIN s}

VARIABLES
    build,      \* "debug" (debug assertions and overflow checks on) or "release"
    items,      \* TypeLayout.items: sequence of [id, depth]
    tree,       \* the TypeTree the layout was flattened from, or NoTree
    root,       \* to_vesper: Option<TypeVesper>, the item index of the root node
    content,    \* to_vesper: node (item index) -> sequence of its children
    path,       \* to_vesper: Vec<usize> of child indices (0-based)
    pos,        \* to_vesper: index of the item the loop is at
    status,     \* "idle" | "run" | "ok" | a panic
    cap,        \* capacity of the TypeSystem's confined map
    refs,       \* SemId -> the SemIds the type with that id refers to
    sys,        \* a TypeSystem: [types: ordered map as a sequence, libs]
    hist,       \* history: the member ids in the order they were first inserted
    libHist,    \* history: the library ids in the order they were added
    ret,        \* what the last operation returned
    pending,    \* SystemBuilder: the union of the imported types (ordered map)
    imported,   \* history: the set of all type ids handed to import
    handed,     \* history: every <<id, type>> a library handed to import
    deps,       \* SystemBuilder: the ids imported types depend on, not yet supplied
    gap,        \* history: some import left the union with a dangling reference
    outcome,    \* SystemBuilder: "building" | "ok" | "err" of finalize |
                \* "import_collision" | "import_err" of import
    errors,     \* SystemBuilder::finalize: the list of errors returned
    input,      \* the argument of the function call under study; in a merge
                \* run the library handed to import and the ids held before
    output,     \* what that call returned
    phase       \* "idle" | "ready" (input chosen) | later stages of the call

lvars == <<build, items, tree, root, content, path, pos, status>>

svars == <<cap, refs, sys, hist, libHist, ret>>

bvars == <<pending, imported, handed, deps, gap, outcome, errors>>

pvars == <<input, output, phase>>

vars == <<build, items, tree, root, content, path, pos, status,
          cap, refs, sys, hist, libHist, ret,
          pending, imported, handed, deps, gap, outcome, errors,
          input, output, phase>>

\* ------------------------------------------------- layout: TypeTree source

NoTree == [n |-> 0, parent |-> <<>>]

\* Children of node v of tree T, in their order.
Kids(T, v) == SortedSeq({i \in 1..T.n : T.parent[i] = v})

RECURSIVE NodeDepth(_, _)
NodeDepth(T, v) == IF T.parent[v] = None THEN 0 ELSE 1 + NodeDepth(T, T.parent[v])

\* Finite ordered trees: node 1 is the root, every other node has a parent
\* with a smaller label, children are ordered by label.
Trees ==
    { T \in UNION { [n : {k}, parent : [1..k -> 0..(k - 1)]] : k \in 1..MaxItems } :
        /\ T.parent[1] = None
        /\ \A i \in 2..T.n : T.parent[i] >= 1 /\ T.parent[i] < i
        /\ \A v \in 1..T.n : Len(Kids(T, v)) <= MaxChildren
        /\ \A v \in 1..T.n : NodeDepth(T, v) <= MaxDepth }

\* Preorder flattening with explicit depths: the node, then each child's
\* subtree in order, one level deeper.
RECURSIVE Flatten(_, _, _), FlattenAll(_, _, _)
Flatten(T, v, d) == <<[id |-> v, depth |-> d]>> \o FlattenAll(T, Kids(T, v), d + 1)
FlattenAll(T, ks, d) ==
    IF ks = <<>> THEN <<>>
    ELSE Flatten(T, Head(ks), d) \o FlattenAll(T, Tail(ks), d)

\* impl From<TypeTree> for TypeLayout
LayoutFromTree(T) == Flatten(T, 1, 0)

\* Arbitrary layouts: any depths, the item's id is its position.
DepthSeqs == UNION { [1..n -> 0..MaxDepth] : n \in 0..MaxItems }

LayoutOfDepths(ds) == [i \in 1..Len(ds) |-> [id |-> i, depth |-> ds[i]]]

\* --------------------------------------------------- layout: to_vesper

Panics == {"panic_root_set", "panic_depth_zero", "panic_skipped_levels",
           "panic_already_set", "panic_inconsistency", "panic_too_much_items",
           "panic_zero_items"}

\* if path.is_empty() && depth == 0
IsRootItem(p, depth) == p = <<>> /\ depth = 0

\* debug_assert_eq!(root, None): checked only with debug assertions.
RootAssertFails(b, r) == b = "debug" /\ r # None

\* debug_assert!(depth > 0): checked only with debug assertions.
DepthAssertFails(b, depth) == b = "debug" /\ ~(depth > 0)

\* depth - 1 on usize (reached with depth = 0 only when assertions are off).
Sub1(depth) == IF depth = 0 THEN USIZE_MAX ELSE depth - 1

\* Faulty variant of SkippedLevels: the comparison off by one.
SkippedLevelsOffByOne(p, depth) == Len(p) <= Sub1(depth)

\* if path.len() < depth - 1 { panic!("invalid type layout with skipped levels") }
SkippedLevels(p, depth) == Len(p) < Sub1(depth)

\* Faulty variant of Truncate: `>` for `>=`, a sibling no longer pops the stack.
TruncateStrict(p, depth) == IF Len(p) > depth THEN SubSeq(p, 1, Sub1(depth)) ELSE p

\* Faulty variant of Truncate: the stack is never cut back.
TruncateKeep(p, depth) == p

\* else if path.len() >= depth { let _ = path.split_off(depth - 1); }
Truncate(p, depth) == IF Len(p) >= depth THEN SubSeq(p, 1, Sub1(depth)) ELSE p

\* for el in &path { head = head.content.get_mut(*el).expect(..) }
\* None stands for the failed expect.
RECURSIVE Descend(_, _, _)
Descend(c, head, p) ==
    IF p = <<>> THEN head
    ELSE IF Head(p) >= Len(c[head]) THEN None
    ELSE Descend(c, c[head][Head(p) + 1], Tail(p))

\* Faulty variant of PushFails: the push result is ignored.
PushNeverFails(kids) == FALSE

\* Confined::push: Err when the collection already holds the maximum.
PushFails(kids) == Len(kids) >= MaxChildren

\* Faulty variant of Push: the child is inserted in front.
PushFront(kids, node) == <<node>> \o kids

\* head.content.push(Box::new(expr))
Push(kids, node) == Append(kids, node)

\* Faulty variant of RootExpect: a missing root is not checked.
RootExpectUnchecked(r) == "ok"

\* root.expect("invalid type layout with zero items")
RootExpect(r) == IF r = None THEN "panic_zero_items" ELSE "ok"

Panic(kind) ==
    /\ status' = kind
    /\ UNCHANGED <<build, items, tree, root, content, path, pos>>
    /\ UNCHANGED <<svars, bvars, pvars>>

\* One iteration of `for item in &self.items`.
ProcessItem ==
    /\ status = "run"
    /\ pos <= Len(items)
    /\ LET depth == items[pos].depth IN
       IF IsRootItem(path, depth) THEN
           IF RootAssertFails(build, root) THEN Panic("panic_root_set")
           ELSE /\ root' = pos
                \* the previous root, if any, is dropped with its subtree
                /\ content' = [i \in DOMAIN content |-> <<>>]
                /\ pos' = pos + 1
                /\ UNCHANGED <<build, items, tree, path, status>>
                /\ UNCHANGED <<svars, bvars, pvars>>
       ELSE IF DepthAssertFails(build, depth) THEN Panic("panic_depth_zero")
       ELSE IF SkippedLevels(path, depth) THEN Panic("panic_skipped_levels")
       ELSE LET p1 == Truncate(path, depth) IN
            IF root = None THEN Panic("panic_already_set")
            ELSE LET head == Descend(content, root, p1) IN
                 IF head = None THEN
                     /\ status' = "panic_inconsistency"
                     /\ path' = p1
                     /\ UNCHANGED <<build, items, tree, root, content, pos>>
                     /\ UNCHANGED <<svars, bvars, pvars>>
                 ELSE IF PushFails(content[head]) THEN
                     /\ status' = "panic_too_much_items"
                     /\ path' = Append(p1, Len(content[head]))
                     /\ UNCHANGED <<build, items, tree, root, content, pos>>
                     /\ UNCHANGED <<svars, bvars, pvars>>
                 ELSE
                     /\ path' = Append(p1, Len(content[head]))
                     /\ content' = [content EXCEPT ![head] = Push(@, pos)]
                     /\ pos' = pos + 1
                     /\ UNCHANGED <<build, items, tree, root, status>>
                     /\ UNCHANGED <<svars, bvars, pvars>>

\* The loop is over: root.expect(..) returns the tree or panics.
Return ==
    /\ status = "run"
    /\ pos > Len(items)
    /\ status' = RootExpect(root)
    /\ UNCHANGED <<build, items, tree, root, content, path, pos>>
    /\ UNCHANGED <<svars, bvars, pvars>>

\* ----------------------------------------------------------- TypeSystem

SemIds == 1..NumIds

LibIds == 1..NumLibs

\* What a type may refer to: any ids (itself included), at most MaxRefs.
RefSets == {R \in SUBSET SemIds : Cardinality(R) <= MaxRefs}

\* TypeSystem::new(): the empty map (and no libraries).
EmptySys == [types |-> <<>>, libs |-> <<>>]

\* The keys of an ordered map, in iteration order.
KeySeq(m) == [i \in 1..Len(m) |-> m[i].id]

HasKey(m, k) == \E i \in 1..Len(m) : m[i].id = k

\* BTreeMap::insert: replaces the value of a present key, otherwise puts the
\* entry at its place in key order.
OrdInsert(m, k, v) ==
    IF HasKey(m, k)
    THEN [i \in 1..Len(m) |-> IF m[i].id = k THEN [id |-> k, ty |-> v] ELSE m[i]]
    ELSE LET n == Cardinality({i \in 1..Len(m) : m[i].id < k})
         IN SubSeq(m, 1, n) \o <<[id |-> k, ty |-> v]>> \o SubSeq(m, n + 1, Len(m))

\* Confined<BTreeMap>::insert: Err(Oversize) when a new key would exceed
\* the maximum, otherwise Ok(previous value).
\* Faulty variant of ConfinedInsert: the length bound is not enforced.
ConfinedInsertUnbounded(m, k, v, max) ==
    [ok |-> TRUE, map |-> OrdInsert(m, k, v), old |-> HasKey(m, k)]

ConfinedInsert(m, k, v, max) ==
    IF ~HasKey(m, k) /\ Len(m) >= max
    THEN [ok |-> FALSE, map |-> m, old |-> FALSE]
    ELSE [ok |-> TRUE, map |-> OrdInsert(m, k, v), old |-> HasKey(m, k)]

\* Faulty variant of insert_unchecked: the map keeps insertion order (a new entry
\* goes to the end) instead of key order.
insert_unchecked_unordered(t, k, v, max) ==
    IF ~HasKey(t.types, k) /\ Len(t.types) >= max
    THEN [sys |-> t, ok |-> FALSE, present |-> FALSE]
    ELSE IF HasKey(t.types, k)
         THEN [sys |-> [t EXCEPT !.types = OrdInsert(@, k, v)], ok |-> TRUE, present |-> TRUE]
         ELSE [sys |-> [t EXCEPT !.types = Append(@, [id |-> k, ty |-> v])],
               ok |-> TRUE, present |-> FALSE]

\* TypeSystem::insert_unchecked: self.0.insert(sem_id, ty).map(|r| r.is_some())
insert_unchecked(t, k, v, max) ==
    LET r == ConfinedInsert(t.types, k, v, max)
    IN [sys |-> [t EXCEPT !.types = r.map], ok |-> r.ok, present |-> r.ok /\ r.old]

\* TypeSystem::count_types
count_types(t) == Len(t.types)

\* The accessors sem_commit reads.
count_libs(t) == Len(t.libs)

lib_ids(t) == t.libs

sem_ids(t) == KeySeq(t.types)

\* Adding a library id to the ordered set of library ids.
OrdSetInsert(q, l) ==
    IF l \in Range(q) THEN q
    ELSE LET n == Cardinality({i \in 1..Len(q) : q[i] < l})
         IN SubSeq(q, 1, n) \o <<l>> \o SubSeq(q, n + 1, Len(q))

\* ------------------------------------------------- TypeSystem: identity

\* One committed byte.
Byte(b) == [kind |-> "byte", v |-> b]

\* The 32 bytes of a library id / of a semantic id, as one token.
LibIdBytes(l) == [kind |-> "lib_id", v |-> l]

SemIdBytes(x) == [kind |-> "sem_id", v |-> x]

\* Sha256::new_with_prefix(TYPESYS_ID_TAG).finalize(), as one token.
TagHash == [kind |-> "sha256_of_tag", v |-> 0]

\* Faulty variant of to_le_bytes: the bytes in big-endian order.
to_be_bytes(n, w) == [i \in 1..w |-> Byte((n \div (256 ^ (w - i))) % 256)]

\* <int>::to_le_bytes for a w-byte unsigned integer.
to_le_bytes(n, w) == [i \in 1..w |-> Byte((n \div (256 ^ (i - 1))) % 256)]

\* Faulty variant of sem_commit: the types are committed before the libraries.
sem_commit_types_first(t) ==
    to_le_bytes(count_types(t), CountTypesBytes)
        \o [i \in 1..Len(sem_ids(t)) |-> SemIdBytes(sem_ids(t)[i])]
        \o to_le_bytes(count_libs(t), CountLibsBytes)
        \o [i \in 1..Len(lib_ids(t)) |-> LibIdBytes(lib_ids(t)[i])]

\* impl SemCommit for TypeSystem: what sem_commit feeds to the hasher.
sem_commit(t) ==
    to_le_bytes(count_libs(t), CountLibsBytes)
        \o [i \in 1..Len(lib_ids(t)) |-> LibIdBytes(lib_ids(t)[i])]
        \o to_le_bytes(count_types(t), CountTypesBytes)
        \o [i \in 1..Len(sem_ids(t)) |-> SemIdBytes(sem_ids(t)[i])]

\* TypeSystem::id: everything the hasher consumes, in order.
IdStream(t) == <<TagHash, TagHash>> \o sem_commit(t)

\* Sha256 of a stream: injective, kept as the stream it hashes.
Sha256(stream) == [sha256 |-> stream]

\* TypeSystem::id
TypeSystem_id(t) == Sha256(IdStream(t))

\* ------------------------------------------------- TypeSystem: operations

\* insert_unchecked(sem_id, ty) on sys.
Insert(s) ==
    /\ LET r == insert_unchecked(sys, s, refs[s], cap) IN
       /\ sys' = r.sys
       /\ hist' = IF r.ok /\ ~r.present THEN Append(hist, s) ELSE hist
       /\ ret' = [op |-> "insert", key |-> s, ok |-> r.ok, present |-> r.present]
    /\ UNCHANGED <<cap, refs, libHist>>
    /\ UNCHANGED <<lvars, bvars, pvars>>

\* A library id joins the system.
AddLib(l) ==
    /\ sys' = [sys EXCEPT !.libs = OrdSetInsert(@, l)]
    /\ libHist' = IF l \in Range(sys.libs) THEN libHist ELSE Append(libHist, l)
    /\ ret' = [op |-> "add_lib", ok |-> TRUE, present |-> l \in Range(sys.libs)]
    /\ UNCHANGED <<cap, refs, hist>>
    /\ UNCHANGED <<lvars, bvars, pvars>>

\* Faulty variant of CallId: computing the id drains the map.
CallIdDraining ==
    /\ ret' = [op |-> "id", stream |-> IdStream(sys), id |-> TypeSystem_id(sys)]
    /\ sys' = [sys EXCEPT !.types = <<>>]
    /\ UNCHANGED <<cap, refs, hist, libHist>>
    /\ UNCHANGED <<lvars, bvars, pvars>>

\* sys.id()
CallId ==
    /\ ret' = [op |-> "id", stream |-> IdStream(sys), id |-> TypeSystem_id(sys)]
    /\ UNCHANGED <<cap, refs, sys, hist, libHist>>
    /\ UNCHANGED <<lvars, bvars, pvars>>

\* sys.count_types()
CallCountTypes ==
    /\ ret' = [op |-> "count_types", n |-> count_types(sys)]
    /\ UNCHANGED <<cap, refs, sys, hist, libHist>>
    /\ UNCHANGED <<lvars, bvars, pvars>>

\* Display of sys: a header line with the id, then one line per member in
\* the order of the map.
CallDisplay ==
    /\ ret' = [op |-> "display", id |-> TypeSystem_id(sys),
               lines |-> [i \in 1..Len(sys.types) |-> sys.types[i]]]
    /\ UNCHANGED <<cap, refs, sys, hist, libHist>>
    /\ UNCHANGED <<lvars, bvars, pvars>>

\* -------------------------------------------------------- SystemBuilder

\* A library is a map from the ids of its members to their types; refs
\* names the structure each id commits to, so the library of the members S
\* that a compilation produces is:
LibOf(S) == [t \in S |-> refs[t]]

\* A structure other than the one the id commits to: the reference of the
\* type to itself is toggled.
AltTy(t) == IF t \in refs[t] THEN refs[t] \ {t} ELSE refs[t] \cup {t}

\* Every library with the members S a caller may hand to import: the one
\* above, and those in which one member has another structure under its id.
LibsOf(S) == {LibOf(S)} \cup {[LibOf(S) EXCEPT ![t] = AltTy(t)] : t \in S}

\* The type the union holds under the id k.
TypeOf(m, k) == m[CHOOSE i \in 1..Len(m) : m[i].id = k].ty

\* import: every type of the library is inserted into the union, in id
\* order; a member whose id the union holds with another structure ends
\* the import with a collision error.
RECURSIVE ImportAll(_, _, _, _)
ImportAll(m, ks, lib, max) ==
    IF ks = <<>> THEN [ok |-> TRUE, err |-> "none", map |-> m]
    ELSE IF HasKey(m, Head(ks)) /\ TypeOf(m, Head(ks)) # lib[Head(ks)]
    THEN [ok |-> FALSE, err |-> "collision", map |-> m]
    ELSE LET r == ConfinedInsert(m, Head(ks), lib[Head(ks)], max)
         IN IF r.ok THEN ImportAll(r.map, Tail(ks), lib, max)
            ELSE [ok |-> FALSE, err |-> "confinement", map |-> m]

\* The bookkeeping of import: the ids the library's types depend on and no
\* import has supplied yet are recorded; the ids the library supplies are
\* struck off.
RecordDeps(d, lib, seen) ==
    (d \ DOMAIN lib) \cup ((UNION {lib[t] : t \in DOMAIN lib}) \ (seen \cup DOMAIN lib))

\* Faulty variant of Import: a library whose import leaves a reference of
\* the union unresolved is refused.
ImportEager(lib) ==
    /\ outcome = "building"
    /\ LET S == DOMAIN lib
           r == ImportAll(pending, SortedSeq(S), lib, cap)
       IN /\ IF r.ok /\ \A t \in imported \cup S : refs[t] \subseteq imported \cup S
             THEN pending' = r.map /\ outcome' = outcome
             ELSE /\ pending' = pending
                  /\ outcome' = IF r.err = "collision" THEN "import_collision"
                                ELSE "import_err"
          /\ imported' = imported \cup S
          /\ handed' = handed \cup {<<t, lib[t]>> : t \in S}
          /\ deps' = RecordDeps(deps, lib, imported)
          /\ gap' = (gap \/ \E h \in handed' : ~(h[2] \subseteq imported'))
          /\ ret' = [op |-> "import", ok |-> outcome' = "building"]
    /\ UNCHANGED errors
    /\ UNCHANGED <<cap, refs, sys, hist, libHist>>
    /\ UNCHANGED lvars

\* Faulty variant of Import: a member whose id the union already holds is
\* taken for a collision whatever its structure.
ImportStrict(lib) ==
    /\ outcome = "building"
    /\ LET S == DOMAIN lib
           r == ImportAll(pending, SortedSeq(S), lib, cap)
       IN /\ IF r.ok /\ \A t \in S : ~HasKey(pending, t)
             THEN pending' = r.map /\ outcome' = outcome
             ELSE /\ pending' = pending
                  /\ outcome' = IF r.err = "confinement" THEN "import_err"
                                ELSE "import_collision"
          /\ imported' = imported \cup S
          /\ handed' = handed \cup {<<t, lib[t]>> : t \in S}
          /\ deps' = RecordDeps(deps, lib, imported)
          /\ gap' = (gap \/ \E h \in handed' : ~(h[2] \subseteq imported'))
          /\ ret' = [op |-> "import", ok |-> outcome' = "building"]
    /\ UNCHANGED errors
    /\ UNCHANGED <<cap, refs, sys, hist, libHist>>
    /\ UNCHANGED lvars

\* SystemBuilder::import(lib): (a) a member whose id the union holds with a
\* different structure is rejected, one with the same structure is merged;
\* (b) the library's dependencies are recorded.
Import(lib) ==
    /\ outcome = "building"
    /\ LET S == DOMAIN lib
           r == ImportAll(pending, SortedSeq(S), lib, cap)
       IN /\ IF r.ok
             THEN pending' = r.map /\ outcome' = outcome
             ELSE /\ pending' = pending
                  /\ outcome' = IF r.err = "collision" THEN "import_collision"
                                ELSE "import_err"
          /\ imported' = imported \cup S
          /\ handed' = handed \cup {<<t, lib[t]>> : t \in S}
          /\ deps' = RecordDeps(deps, lib, imported)
          /\ gap' = (gap \/ \E h \in handed' : ~(h[2] \subseteq imported'))
          /\ ret' = [op |-> "import", ok |-> outcome' = "building"]
    /\ UNCHANGED errors
    /\ UNCHANGED <<cap, refs, sys, hist, libHist>>
    /\ UNCHANGED lvars

\* Faulty variant of EntryErrors: the scan looks up the member's own id in
\* place of the id it refers to, so no reference is ever found missing.
EntryErrorsOwnId(m, e) ==
    LET miss == SortedSeq({r \in e.ty : ~HasKey(m, e.id)})
    IN [j \in 1..Len(miss) |-> [ty |-> e.id, missing |-> miss[j]]]

\* The errors of one member type: one per referenced id that is no member,
\* in ascending order of the missing id.
EntryErrors(m, e) ==
    LET miss == SortedSeq({r \in e.ty : ~HasKey(m, r)})
    IN [j \in 1..Len(miss) |-> [ty |-> e.id, missing |-> miss[j]]]

\* The completeness scan from member i on, members in id order.
RECURSIVE ScanFrom(_, _)
ScanFrom(m, i) ==
    IF i > Len(m) THEN <<>> ELSE EntryErrors(m, m[i]) \o ScanFrom(m, i + 1)

\* Faulty variant of MissingRefs: the scan stops at the first error.
MissingRefsFirstOnly(m) ==
    IF ScanFrom(m, 1) = <<>> THEN <<>> ELSE <<Head(ScanFrom(m, 1))>>

\* The completeness scan over the union of all imported types.
MissingRefs(m) == ScanFrom(m, 1)

\* The TypeSystem of a complete union: each member inserted in turn.
RECURSIVE BuildSys(_, _, _)
BuildSys(t, m, max) ==
    IF m = <<>> THEN t
    ELSE BuildSys(insert_unchecked(t, Head(m).id, Head(m).ty, max).sys, Tail(m), max)

\* SystemBuilder::finalize
Finalize ==
    /\ outcome = "building"
    /\ LET errs == MissingRefs(pending) IN
       IF errs = <<>>
       THEN /\ outcome' = "ok"
            /\ sys' = BuildSys(EmptySys, pending, cap)
            /\ errors' = <<>>
       ELSE /\ outcome' = "err"
            /\ sys' = sys
            /\ errors' = errs
    /\ ret' = [op |-> "finalize", ok |-> outcome' = "ok", present |-> FALSE]
    /\ UNCHANGED <<cap, refs, hist, libHist, pending, imported, handed, deps, gap>>
    /\ UNCHANGED <<lvars, pvars>>

\* ------------------------------------------------------- specifications

IdleLayout ==
    /\ build = "debug"
    /\ items = <<>>
    /\ tree = NoTree
    /\ root = None
    /\ content = <<>>
    /\ path = <<>>
    /\ pos = 1
    /\ status = "idle"

IdleSys ==
    /\ cap = MaxTypes
    /\ refs = [s \in SemIds |-> {}]
    /\ sys = EmptySys
    /\ hist = <<>>
    /\ libHist = <<>>
    /\ ret = [op |-> "new", ok |-> TRUE, present |-> FALSE]

IdleBuilder ==
    /\ pending = <<>>
    /\ imported = {}
    /\ handed = {}
    /\ deps = {}
    /\ gap = FALSE
    /\ outcome = "idle"
    /\ errors = <<>>

IdlePure ==
    /\ input = <<>>
    /\ output = <<>>
    /\ phase = "idle"

InitLayout ==
    /\ build \in {"debug", "release"}
    /\ \/ \E ds \in DepthSeqs : items = LayoutOfDepths(ds) /\ tree = NoTree
       \/ \E T \in Trees : items = LayoutFromTree(T) /\ tree = T
    /\ root = None
    /\ content = [i \in 1..Len(items) |-> <<>>]
    /\ path = <<>>
    /\ pos = 1
    /\ status = "run"
    /\ IdleSys
    /\ IdleBuilder
    /\ IdlePure

NextLayout == ProcessItem \/ Return

\* TypeLayout::to_vesper on every layout within the bounds.
Init == InitLayout

Next == NextLayout

Spec == Init /\ [][Next]_vars

\* A TypeSystem under insert_unchecked, library additions and id().
InitSys ==
    /\ IdleLayout
    /\ IdleSys
    /\ IdleBuilder
    /\ IdlePure

NextSys ==
    \/ \E s \in SemIds : Insert(s)
    \/ \E l \in LibIds : AddLib(l)
    \/ CallId
    \/ CallCountTypes
    \/ CallDisplay

SpecSys == InitSys /\ [][NextSys]_vars

\* A SystemBuilder importing libraries and finalizing; the capacity is
\* above the number of ids of the universe, as 2^24 - 1 is in the code.
InitBuilder ==
    /\ IdleLayout
    /\ cap = NumIds
    /\ refs \in [SemIds -> RefSets]
    /\ sys = EmptySys
    /\ hist = <<>>
    /\ libHist = <<>>
    /\ ret = [op |-> "new", ok |-> TRUE, present |-> FALSE]
    /\ pending = <<>>
    /\ imported = {}
    /\ handed = {}
    /\ deps = {}
    /\ gap = FALSE
    /\ outcome = "building"
    /\ errors = <<>>
    /\ IdlePure

\* builder.import(lib) with a library in which every id has the one
\* structure it commits to.
ImportLib(S) == Import(LibOf(S)) /\ UNCHANGED pvars

NextBuilder ==
    \/ \E S \in (SUBSET SemIds) \ {{}} : ImportLib(S)
    \/ Finalize

SpecBuilder == InitBuilder /\ [][NextBuilder]_vars

\* The structures of the merge runs: a type refers to nothing or to the
\* type of the least id.
MergeRefSets == {{}, {1}}

\* A SystemBuilder that is handed any library: members may come with a
\* structure other than the one their id commits to, and the capacity may
\* be below the number of ids.
InitMergeBuilder ==
    /\ IdleLayout
    /\ cap \in {MaxTypes, NumIds}
    /\ refs \in [SemIds -> MergeRefSets]
    /\ sys = EmptySys
    /\ hist = <<>>
    /\ libHist = <<>>
    /\ ret = [op |-> "new", ok |-> TRUE, present |-> FALSE]
    /\ pending = <<>>
    /\ imported = {}
    /\ handed = {}
    /\ deps = {}
    /\ gap = FALSE
    /\ outcome = "building"
    /\ errors = <<>>
    /\ IdlePure

\* builder.import(lib) with any library, the call kept on record.
Merge(lib) ==
    /\ Import(lib)
    /\ input' = [lib |-> lib, held |-> imported]
    /\ UNCHANGED <<output, phase>>

NextMergeBuilder ==
    \/ \E S \in (SUBSET SemIds) \ {{}} : \E lib \in LibsOf(S) : Merge(lib)
    \/ Finalize

\* A TypeSystem under direct inserts, or a SystemBuilder merging libraries.
InitMerge == InitSys \/ InitMergeBuilder

NextMerge ==
    \/ outcome = "idle" /\ NextSys
    \/ NextMergeBuilder

SpecMerge == InitMerge /\ [][NextMerge]_vars

\* ------------------------------------------------------ library compiler

Names == 1..NumNames

NameRefSets == {R \in SUBSET Names : Cardinality(R) <= MaxRefs}

\* What LibBuilder is given: every name is declared by the library ("lib"),
\* provided by a declared dependency ("dep") or declared nowhere ("none");
\* a declared type refers to other types by name.
SymInputs ==
    {i \in [decl : [Names -> {"lib", "dep", "none"}], symRefs : [Names -> NameRefSets]] :
        \A n \in Names : i.decl[n] # "lib" => i.symRefs[n] = {}}

\* Faulty variant of KnownNames: every name counts as known.
KnownNamesAll(i) == Names

\* The names a reference may resolve to: the types of the library and
\* those of its dependencies.
KnownNames(i) == {n \in Names : i.decl[n] \in {"lib", "dep"}}

\* The references of the library that resolve to nothing.
UnknownRefs(i) ==
    {n \in Names : \E a \in Names : i.decl[a] = "lib" /\ n \in i.symRefs[a]
                                     /\ n \notin KnownNames(i)}

\* LibBuilder::compile_symbols: the symbolic library, or an error naming a
\* reference that is not known (which one, when there are several, depends
\* on the order of the walk).
CompileSymbols ==
    /\ phase = "ready"
    /\ \/ /\ UnknownRefs(input) = {}
          /\ output' = [ok |-> TRUE, name |-> None, lib |-> <<>>]
          /\ phase' = "symbolic"
       \/ \E b \in UnknownRefs(input) :
             /\ output' = [ok |-> FALSE, name |-> b, lib |-> <<>>]
             /\ phase' = "failed"
    /\ UNCHANGED input
    /\ UNCHANGED <<lvars, svars, bvars>>

\* SymbolicLib::compile, reached only when compile_symbols returned Ok
\* (the `?` of _std_stl and _strict_types_stl): every reference is resolved
\* and the TypeLib holds the declared types.  The lib field of the result is
\* an Option: <<>> or a sequence holding the one TypeLib.
Compile ==
    /\ phase = "symbolic"
    /\ IF UnknownRefs(input) = {}
       THEN /\ output' = [ok |-> TRUE, name |-> None,
                          lib |-> <<[n \in {m \in Names : input.decl[m] = "lib"}
                                       |-> input.symRefs[n]]>>]
            /\ phase' = "compiled"
       ELSE /\ output' = [ok |-> FALSE, name |-> Min(UnknownRefs(input)), lib |-> <<>>]
            /\ phase' = "failed"
    /\ UNCHANGED input
    /\ UNCHANGED <<lvars, svars, bvars>>

InitCompile ==
    /\ IdleLayout
    /\ IdleSys
    /\ IdleBuilder
    /\ input \in SymInputs
    /\ output = <<>>
    /\ phase = "ready"

NextCompile == CompileSymbols \/ Compile

SpecCompile == InitCompile /\ [][NextCompile]_vars

\* ------------------------------------------------ TypeSysId: text form

\* A text is a sequence of elements. An element is a character this crate
\* writes or reads, or a piece written by the Baid58 crate, which is no part
\* of this repository: of a piece the model keeps the format it was written
\* under, the human-readable identifier and the payload, and nothing of its
\* characters.
Ch(c) == [fmt |-> "char", ch |-> c, id |-> <<>>]

UrnChars == <<"u", "r", "n", ":", "u", "b", "i", "d", "e", "c", "o", ":">>

UrnPrefix == [i \in 1..Len(UrnChars) |-> Ch(UrnChars[i])]

HRI == "sts"

\* The byte values ids are drawn from.
ByteVals == {0, 1, 58, 255}

TypeSysIds == [1..IdLen -> ByteVals]

\* What id.rs asks of the Baid58 crate: the mnemonic alone, and the display
\* of the Baid58 under the three format strings.
Baid58Formats == {"mnemonic", "{:#}", "{::<}", "{::<#}"}

\* What the Baid58 crate writes for the payload bs under the format f.
Baid58Fmt(bs, f) == <<[fmt |-> f, ch |-> HRI, id |-> bs]>>

DisplayModes == {"alternate", "minus", "zero", "default"}

\* Display of a TypeSysId under the formatter flags.
TypeSysId_fmt(bs, mode) ==
    IF mode = "alternate" THEN Baid58Fmt(bs, "mnemonic")
    ELSE IF mode = "minus" THEN Baid58Fmt(bs, "{:#}")
    ELSE IF mode = "zero" THEN UrnPrefix \o Baid58Fmt(bs, "{::<}")
    ELSE UrnPrefix \o Baid58Fmt(bs, "{::<#}")

StartsWith(t, pre) == Len(t) >= Len(pre) /\ SubSeq(t, 1, Len(pre)) = pre

\* str::trim_start_matches: every repetition of the prefix is removed.
RECURSIVE trim_start_matches(_, _)
trim_start_matches(t, pre) ==
    IF pre # <<>> /\ StartsWith(t, pre)
    THEN trim_start_matches(SubSeq(t, Len(pre) + 1, Len(t)), pre)
    ELSE t

\* FromBaid58::from_baid58_str, the parser of the Baid58 crate. Which of the
\* crate's own renderings its parser reads back is not settled by this
\* repository: reads is the set of formats it does read back, and every
\* choice of it is a run of the model. A text that is not one piece of the
\* crate is an error here; no run hands the parser such a text.
from_baid58_str(t, reads) ==
    IF Len(t) = 1 /\ t[1].fmt \in reads
    THEN [ok |-> TRUE, id |-> t[1].id]
    ELSE [ok |-> FALSE, id |-> <<>>]

\* TypeSysId::from_str
TypeSysId_from_str(t, reads) ==
    from_baid58_str(trim_start_matches(t, UrnPrefix), reads)

\* The id is rendered under some formatter flags.
Render(mode) ==
    /\ phase = "ready"
    /\ input' = [input EXCEPT !.mode = mode, !.text = TypeSysId_fmt(input.id, mode)]
    /\ phase' = "shown"
    /\ UNCHANGED output
    /\ UNCHANGED <<lvars, svars, bvars>>

\* The text that goes on to the parser is the rendering with the urn
\* prefix once more in front.
Mangle ==
    /\ phase = "shown"
    /\ input' = [input EXCEPT !.mangle = "prefixed", !.text = UrnPrefix \o @]
    /\ phase' = "mangled"
    /\ UNCHANGED output
    /\ UNCHANGED <<lvars, svars, bvars>>

\* text.parse::<TypeSysId>()
Parse ==
    /\ phase \in {"shown", "mangled"}
    /\ output' = TypeSysId_from_str(input.text, input.reads)
    /\ phase' = "parsed"
    /\ UNCHANGED input
    /\ UNCHANGED <<lvars, svars, bvars>>

InitIdText ==
    /\ IdleLayout
    /\ IdleSys
    /\ IdleBuilder
    /\ \E b \in TypeSysIds, r \in SUBSET Baid58Formats :
          input = [id |-> b, reads |-> r, mode |-> "none", mangle |-> "none",
                   text |-> <<>>]
    /\ output = <<>>
    /\ phase = "ready"

NextIdText ==
    \/ \E mode \in DisplayModes : Render(mode)
    \/ Mangle
    \/ Parse

SpecIdText == InitIdText /\ [][NextIdText]_vars

\* ----------------------------------------------------------------- SymTy

\* Confined::try_from_iter into an ordered set of at most max elements.
try_from_iter(S, max) ==
    IF Cardinality(S) > max THEN [ok |-> FALSE, set |-> {}] ELSE [ok |-> TRUE, set |-> S]

\* SymTy::with: the origin names are collected into a SmallOrdSet; expect
\* panics when that fails.
SymTy_with(name, orig) ==
    LET r == try_from_iter(orig, SmallMax)
    IN IF r.ok THEN [panic |-> FALSE, name |-> name, orig |-> r.set]
       ELSE [panic |-> TRUE, name |-> <<>>, orig |-> {}]

\* SymTy::named(lib_name, ty_name, ty)
SymTy_named(lib_name, ty_name) == SymTy_with(<<ty_name>>, {lib_name})

\* SymTy::unnamed(ty)
SymTy_unnamed == SymTy_with(<<>>, {})

\* The calls tried: with on n distinct names, for every n up to MaxOrig
\* and at the capacity of the set and one above; named; unnamed.
SymTyCalls ==
    {[ctor |-> "with", name |-> <<>>, orig |-> 1..n] :
        n \in (0..MaxOrig) \cup {SmallMax, SmallMax + 1}}
    \cup {[ctor |-> "named", name |-> <<1>>, orig |-> {l}] : l \in LibIds}
    \cup {[ctor |-> "unnamed", name |-> <<>>, orig |-> {}]}

With ==
    /\ phase = "ready"
    /\ input.ctor = "with"
    /\ output' = SymTy_with(input.name, input.orig)
    /\ phase' = "done"
    /\ UNCHANGED input
    /\ UNCHANGED <<lvars, svars, bvars>>

Named ==
    /\ phase = "ready"
    /\ input.ctor = "named"
    /\ \E l \in input.orig : output' = SymTy_named(l, input.name[1])
    /\ phase' = "done"
    /\ UNCHANGED input
    /\ UNCHANGED <<lvars, svars, bvars>>

Unnamed ==
    /\ phase = "ready"
    /\ input.ctor = "unnamed"
    /\ output' = SymTy_unnamed
    /\ phase' = "done"
    /\ UNCHANGED input
    /\ UNCHANGED <<lvars, svars, bvars>>

InitSymTy ==
    /\ IdleLayout
    /\ IdleSys
    /\ IdleBuilder
    /\ input \in SymTyCalls
    /\ output = <<>>
    /\ phase = "ready"

NextSymTy == With \/ Named \/ Unnamed

SpecSymTy == InitSymTy /\ [][NextSymTy]_vars

\* ----------------------------------------------------------------- Ident

\* The ASCII characters identifiers are drawn from, by class.
Letters == {"a", "Z"}

Digits == {"0", "7"}

Others == {"_", "-", " "}

AsciiChars == Letters \cup Digits \cup Others

\* AsciiChar::is_alphabetic
is_alphabetic(ch) == ch \in Letters

\* AsciiChar::is_ascii_alphanumeric
is_ascii_alphanumeric(ch) == ch \in Letters \cup Digits

\* The values of Confined<AsciiString, 1, 32>.
ConfinedAsciiStrings ==
    UNION {[1..n -> AsciiChars] : n \in 1..IdentMax}

\* Faulty variant of Ident_try_from: the first character is tested with
\* is_ascii_alphanumeric.
Ident_try_from_alnum(value) ==
    LET first == value[1]
        bad   == {i \in 1..Len(value) :
                     ~is_ascii_alphanumeric(value[i]) /\ value[i] # "_"}
    IN IF ~is_ascii_alphanumeric(first)
       THEN [ok |-> FALSE, err |-> "NonAlphabetic", ch |-> first]
       ELSE IF bad # {}
       THEN [ok |-> FALSE, err |-> "InvalidChar", ch |-> value[Min(bad)]]
       ELSE [ok |-> TRUE, err |-> "", ch |-> ""]

\* Ident::try_from
Ident_try_from(value) ==
    LET first == value[1]
        bad   == {i \in 1..Len(value) :
                     ~is_ascii_alphanumeric(value[i]) /\ value[i] # "_"}
    IN IF ~is_alphabetic(first)
       THEN [ok |-> FALSE, err |-> "NonAlphabetic", ch |-> first]
       ELSE IF bad # {}
       THEN [ok |-> FALSE, err |-> "InvalidChar", ch |-> value[Min(bad)]]
       ELSE [ok |-> TRUE, err |-> "", ch |-> ""]

TryFrom ==
    /\ phase = "ready"
    /\ output' = Ident_try_from(input)
    /\ phase' = "done"
    /\ UNCHANGED input
    /\ UNCHANGED <<lvars, svars, bvars>>

InitIdent ==
    /\ IdleLayout
    /\ IdleSys
    /\ IdleBuilder
    /\ input \in ConfinedAsciiStrings
    /\ output = <<>>
    /\ phase = "ready"

NextIdent == TryFrom

SpecIdent == InitIdent /\ [][NextIdent]_vars

\* ------------------------------------------------------------------ Size

\* The u16 values sizes are drawn from.
U16Vals == {0, 1, 2, 32767, 32768, 65534, 65535}

Fixed(n) == [kind |-> "Fixed", n |-> n]

Variable == [kind |-> "Variable", n |-> 0]

Sizes == {Fixed(n) : n \in U16Vals} \cup {Variable}

\* Ord for Size: x <= y.
Size_le(x, y) ==
    IF y.kind = "Variable" THEN TRUE
    ELSE IF x.kind = "Variable" THEN FALSE
    ELSE x.n <= y.n

\* Add for Size.  `a + b` on u16 panics on overflow where overflow checks
\* are on (the debug build) and wraps where they are off (the release
\* build).
Size_add(b, x, y) ==
    IF x.kind = "Fixed" /\ y.kind = "Fixed"
    THEN IF x.n + y.n >= U16_MOD /\ b = "debug"
         THEN [panic |-> TRUE, size |-> Fixed(0)]
         ELSE [panic |-> FALSE, size |-> Fixed((x.n + y.n) % U16_MOD)]
    ELSE [panic |-> FALSE, size |-> Variable]

\* Sum for Size: acc starts at Fixed(0) and every item is added to it.
RECURSIVE Size_sum_from(_, _, _)
Size_sum_from(b, acc, q) ==
    IF q = <<>> THEN [panic |-> FALSE, size |-> acc]
    ELSE LET r == Size_add(b, acc, Head(q))
         IN IF r.panic THEN r ELSE Size_sum_from(b, r.size, Tail(q))

Size_sum(b, q) == Size_sum_from(b, Fixed(0), q)

SizeSeqs == UNION {[1..n -> Sizes] : n \in 0..MaxSumLen}

\* x + y
AddSizes ==
    /\ phase = "ready"
    /\ Len(input.sizes) = 2
    /\ output' = [op |-> "add"] @@ Size_add(input.build, input.sizes[1], input.sizes[2])
    /\ phase' = "done"
    /\ UNCHANGED input
    /\ UNCHANGED <<lvars, svars, bvars>>

\* iter.sum()
SumSizes ==
    /\ phase = "ready"
    /\ output' = [op |-> "sum"] @@ Size_sum(input.build, input.sizes)
    /\ phase' = "done"
    /\ UNCHANGED input
    /\ UNCHANGED <<lvars, svars, bvars>>

InitSize ==
    /\ IdleLayout
    /\ IdleSys
    /\ IdleBuilder
    /\ input \in [build : {"debug", "release"}, sizes : SizeSeqs]
    /\ output = <<>>
    /\ phase = "ready"

NextSize == AddSizes \/ SumSizes

SpecSize == InitSize /\ [][NextSize]_vars

\* ------------------------------------------------- layout: properties

\* Items 2.. of the layout nest legally: depth >= 1 and at most one deeper
\* than the item before; the first item is at depth 0.
WellNested ==
    /\ Len(items) >= 1
    /\ items[1].depth = 0
    /\ \A i \in 2..Len(items) :
          items[i].depth >= 1 /\ items[i].depth <= items[i - 1].depth + 1

\* The most recently emitted item before i at depth d (None if there is none).
LastAtDepth(i, d) ==
    LET S == {j \in 1..(i - 1) : items[j].depth = d}
    IN IF S = {} THEN None ELSE CHOOSE j \in S : \A k \in S : k <= j

\* Number of children item j has in the tree the depths describe.
IntendedChildren(j) ==
    Cardinality({i \in 2..Len(items) : LastAtDepth(i, items[i].depth - 1) = j})

\* Positions of node i among the children of node n.
PositionsIn(n, i) == {k \in DOMAIN content[n] : content[n][k] = i}

\* C1: for an accepted layout (first item at depth 0, every later item at
\* depth d >= 1 with d <= previous depth + 1), every processed item at depth
\* d >= 1 is a child of the most recently emitted item at depth d-1 and of no
\* other node, and stands after every child that node had before it.
C1_ChildOfLatestShallower ==
    (status \in {"run", "ok"} /\ WellNested) =>
        \A i \in 2..(pos - 1) :
            LET p == LastAtDepth(i, items[i].depth - 1) IN
            /\ p # None
            /\ Cardinality(PositionsIn(p, i)) = 1
            /\ \A n \in DOMAIN content : n # p => PositionsIn(n, i) = {}
            /\ \A k \in PositionsIn(p, i) :
                  /\ \A k2 \in 1..(k - 1) : content[p][k2] < i
                  /\ (i = pos - 1 => k = Len(content[p]))

\* C1 witness: an accepted layout of full length was rebuilt, and some item
\* had to pop back to an ancestor (it is no child of the item before it).
C1_Witness ==
    /\ status = "ok" /\ WellNested /\ Len(items) = MaxItems
    /\ \E i \in 3..Len(items) : items[i].depth <= items[i - 1].depth
    /\ \E i \in 2..Len(items) : items[i].depth = 2

\* C2: round trip.  A layout flattened from a tree T is rebuilt without
\* failure, and the tree returned has T's root, T's nodes and for every
\* node T's children in T's order.
C2_RoundTrip ==
    tree # NoTree =>
        /\ status \notin Panics
        /\ status = "ok" =>
              /\ Len(items) = tree.n
              /\ {items[i].id : i \in 1..Len(items)} = 1..tree.n
              /\ root # None
              /\ items[root].id = 1
              /\ \A i \in 1..Len(items) :
                    [k \in 1..Len(content[i]) |-> items[content[i][k]].id]
                        = Kids(tree, items[i].id)

\* C2 witness: a tree of full size whose labels are not in preorder and
\* with a node of two children was flattened and rebuilt.
C2_Witness ==
    /\ tree # NoTree /\ status = "ok" /\ tree.n = MaxItems
    /\ \E i \in 1..Len(items) : items[i].id # i
    /\ \E v \in 1..tree.n : Len(Kids(tree, v)) >= 2

\* C3: an item after the first whose depth exceeds the previous item's depth
\* by more than one makes to_vesper fail with "skipped levels" at that item,
\* the failure is final (no tree), and for an item at depth d >= 1 the
\* failure is raised exactly when path.len() < d - 1.
C3_SkippedLevels ==
    [][ /\ (status = "run" /\ pos <= Len(items)) =>
            LET d == items[pos].depth IN
            /\ (pos > 1 /\ d > items[pos - 1].depth + 1)
                  => (status' = "panic_skipped_levels" /\ pos' = pos)
            /\ d >= 1 => ((status' = "panic_skipped_levels") <=> (Len(path) < d - 1))
        /\ status = "panic_skipped_levels" => status' = status ]_vars

\* C3 witness: the loop stopped with "skipped levels" at an item after the
\* first that is more than one level deeper than the item before it.
C3_Witness ==
    /\ status = "panic_skipped_levels"
    /\ pos > 1
    /\ items[pos].depth > items[pos - 1].depth + 1

\* C4 (as claimed): a depth-0 item after the first is fatal: the root, once
\* set, is the first item for good, and no tree is returned for a layout
\* with a later depth-0 item.
C4_LaterRootFatal ==
    /\ root \in {None, 1}
    /\ status = "ok" => \A i \in 2..Len(items) : items[i].depth # 0

\* C5: a layout with zero items ends in the "zero items" failure, and a
\* tree is returned only when some processed item at depth 0 was installed
\* as root.
C5_ZeroItems ==
    /\ (items = <<>> /\ status # "run") => status = "panic_zero_items"
    /\ status = "ok" =>
          /\ root # None
          /\ root \in 1..(pos - 1)
          /\ items[root].depth = 0
    /\ status = "panic_zero_items" => root = None

\* C5 witness: to_vesper ran on the empty layout and failed.
C5_Witness == items = <<>> /\ status = "panic_zero_items"

\* C6: no node ever has more children than the bound; every processed item
\* at depth >= 1 is held by some node (none is dropped); and a legally
\* nested layout that gives some node more children than the bound ends in
\* the "too much items" failure.
C6_ChildBound ==
    /\ \A n \in DOMAIN content : Len(content[n]) <= MaxChildren
    /\ status \in {"run", "ok"} =>
          \A i \in 1..(pos - 1) :
              items[i].depth >= 1 => \E n \in DOMAIN content : PositionsIn(n, i) # {}
    /\ (WellNested /\ status # "run"
          /\ \E j \in 1..Len(items) : IntendedChildren(j) > MaxChildren)
          => status = "panic_too_much_items"
    /\ status = "panic_too_much_items" =>
          /\ IntendedChildren(LastAtDepth(pos, items[pos].depth - 1)) > MaxChildren
          /\ Len(content[LastAtDepth(pos, items[pos].depth - 1)]) = MaxChildren

\* C6 witness: a legally nested layout overfilled a node and failed.
C6_Witness ==
    /\ status = "panic_too_much_items"
    /\ WellNested
    /\ \E j \in 1..Len(items) : Len(content[j]) = MaxChildren


\* --------------------------------------------- TypeSystem: properties

\* The orderings of the members of a sequence without repetitions.
Perms(q) == {p \in [1..Len(q) -> Range(q)] : \A i, j \in 1..Len(q) : p[i] = p[j] => i = j}

\* A fresh system given the libraries in lq and then the members in q, in
\* these orders.
RECURSIVE AddLibs(_, _)
AddLibs(t, lq) ==
    IF lq = <<>> THEN t
    ELSE AddLibs([t EXCEPT !.libs = OrdSetInsert(@, Head(lq))], Tail(lq))

RECURSIVE InsertAll(_, _)
InsertAll(t, q) ==
    IF q = <<>> THEN t
    ELSE InsertAll(insert_unchecked(t, Head(q), refs[Head(q)], cap).sys, Tail(q))

\* The value of little-endian bytes.
RECURSIVE LeValue(_)
LeValue(bs) == IF bs = <<>> THEN 0 ELSE Head(bs).v + 256 * LeValue(Tail(bs))

IsBytes(bs) == \A i \in 1..Len(bs) : bs[i].kind = "byte" /\ bs[i].v \in 0..255

\* C7: the id of a TypeSystem depends only on the set of member ids and the
\* set of library ids: a system built by inserting the same members and
\* libraries in any other order has the same id.
C7_IdOrderIndependent ==
    \A q \in Perms(hist) : \A lq \in Perms(libHist) :
        TypeSystem_id(InsertAll(AddLibs(EmptySys, lq), q)) = TypeSystem_id(sys)

\* C7 witness: id() was called on a system whose members and libraries were
\* both inserted out of ascending order.
C7_Witness ==
    /\ ret.op = "id"
    /\ Len(hist) >= 2 /\ hist[1] > hist[2]
    /\ Len(libHist) >= 2 /\ libHist[1] > libHist[2]

\* C8: what id() hashes is, in this order and with nothing else: SHA256(tag)
\* twice, the little-endian count of libraries, the library ids ascending,
\* the little-endian count of types, the member semantic ids ascending.
C8_IdStream ==
    ret.op = "id" =>
        LET st == ret.stream
            nl == Cardinality(Range(libHist))
            nt == Cardinality(Range(hist))
            a  == 2 + CountLibsBytes
            b  == a + nl
            c  == b + CountTypesBytes
        IN /\ Len(st) = c + nt
           /\ st[1] = TagHash /\ st[2] = TagHash
           /\ IsBytes(SubSeq(st, 3, a))
           /\ LeValue(SubSeq(st, 3, a)) = nl
           /\ SubSeq(st, a + 1, b)
                 = [i \in 1..nl |-> LibIdBytes(SortedSeq(Range(libHist))[i])]
           /\ IsBytes(SubSeq(st, b + 1, c))
           /\ LeValue(SubSeq(st, b + 1, c)) = nt
           /\ SubSeq(st, c + 1, c + nt)
                 = [i \in 1..nt |-> SemIdBytes(SortedSeq(Range(hist))[i])]
           /\ ret.id = Sha256(st)

\* C8 witness: id() hashed a system of at least two libraries and two
\* members, the members inserted in descending order.
C8_Witness ==
    /\ ret.op = "id"
    /\ Len(ret.stream) >= 2 + CountLibsBytes + 2 + CountTypesBytes + 2
    /\ Len(hist) >= 2 /\ hist[1] > hist[2]

\* ------------------------------------------ SystemBuilder: properties

\* The references of the imported types that no imported type resolves.
Dangling ==
    {d \in imported \X SemIds : d[2] \in refs[d[1]] /\ d[2] \notin imported}

\* C9: a TypeSystem returned by finalize holds exactly the imported types and
\* is complete; finalize succeeds exactly when the union of the imported
\* types is complete (so it succeeds once an import supplies what was
\* missing), and when it fails its errors list every missing id.
C9_FinalizeComplete ==
    /\ outcome = "ok" =>
          /\ \A i \in 1..Len(sys.types) :
                \A r \in sys.types[i].ty : HasKey(sys.types, r)
          /\ Range(sem_ids(sys)) = imported
          /\ \A i \in 1..Len(sys.types) : sys.types[i].ty = refs[sys.types[i].id]
    /\ outcome \in {"ok", "err"} => (outcome = "ok" <=> Dangling = {})
    /\ outcome = "err" =>
          \A d \in Dangling : \E i \in 1..Len(errors) : errors[i].missing = d[2]

\* C9 witness: finalize succeeded after an import had left a reference
\* dangling and a later import supplied the missing member.
C9_Witness ==
    /\ outcome = "ok"
    /\ gap
    /\ Len(sys.types) >= 2

\* C10: when finalize fails the error list is non-empty and holds exactly one
\* error for every dangling reference of the union of the imported types,
\* and no TypeSystem is returned; when it succeeds there are no errors.
C10_AllErrors ==
    /\ outcome = "err" =>
          /\ errors # <<>>
          /\ {[ty |-> d[1], missing |-> d[2]] : d \in Dangling} = Range(errors)
          /\ Len(errors) = Cardinality(Dangling)
          /\ sys = EmptySys
          /\ ret.op = "finalize" /\ ~ret.ok
    /\ outcome = "ok" => errors = <<>> /\ ret.ok

\* C10 witness: finalize failed with more than one error.
C10_Witness ==
    /\ outcome = "err"
    /\ Len(errors) >= 2
    /\ Cardinality({errors[i].ty : i \in 1..Len(errors)}) >= 2

\* ------------------------------------------- TypeSystem: confinement

\* C11: a TypeSystem never holds more types than the capacity of its
\* confined map, and every id ever inserted with success is still a member
\* with the type it was inserted with; an insert of a new id into a system
\* that holds the maximum returns an error and leaves the map as it was,
\* and a successful insert keeps every entry the map held.
C11_Confinement ==
    /\ [](/\ count_types(sys) <= cap
          /\ Range(sem_ids(sys)) = Range(hist)
          /\ \A i \in 1..Len(sys.types) : sys.types[i].ty = refs[sys.types[i].id])
    /\ [][ret'.op = "insert" =>
            /\ (count_types(sys) = cap /\ ~HasKey(sys.types, ret'.key))
                  => (~ret'.ok /\ sys' = sys)
            /\ ret'.ok => /\ Range(sys.types) \subseteq Range(sys'.types)
                          /\ HasKey(sys'.types, ret'.key)
            /\ ~ret'.ok => sys' = sys]_vars

\* C11 witness: an insert of a new id into a full system was refused.
C11_Witness ==
    /\ ret.op = "insert"
    /\ ~ret.ok
    /\ count_types(sys) = cap
    /\ ~HasKey(sys.types, ret.key)

\* Two libraries handed the same id with different structures.
Clash == \E h \in handed, g \in handed : h[1] = g[1] /\ h[2] # g[2]

\* C12: import raises a collision error only when two libraries disagree on
\* the structure under one id; libraries that share members of the same
\* structure (and fit the capacity) are imported without error, and the
\* union holds every imported id once, with the structure handed in, however
\* often it was imported, and so does the system finalize returns; an
\* insert of an id that is already a member reports it as present and leaves
\* count_types as it was, an insert of a new id reports it as new and raises
\* count_types by exactly one.
C12_CountedOnce ==
    /\ []((outcome # "idle") =>
            /\ outcome = "import_collision" => Clash
            /\ outcome = "import_err" => Cardinality(imported) > cap
            /\ (~Clash /\ Cardinality(imported) <= cap)
                  => outcome \in {"building", "ok", "err"}
            /\ outcome \in {"building", "ok", "err"} =>
                  /\ ~Clash
                  /\ Len(pending) = Cardinality(imported)
                  /\ {<<pending[i].id, pending[i].ty>> : i \in 1..Len(pending)} = handed
            /\ outcome = "ok" =>
                  /\ count_types(sys) = Cardinality(imported)
                  /\ {<<sys.types[i].id, sys.types[i].ty>> : i \in 1..Len(sys.types)}
                        = handed)
    /\ [][/\ (ret'.op = "import" /\ ret'.ok) =>
                Len(pending') = Len(pending) + Cardinality(imported' \ imported)
          /\ (ret'.op = "import" /\ ~ret'.ok) => pending' = pending
          /\ (ret'.op = "insert" /\ ret'.ok) =>
                IF HasKey(sys.types, ret'.key)
                THEN ret'.present /\ count_types(sys') = count_types(sys)
                ELSE ~ret'.present /\ count_types(sys') = count_types(sys) + 1]_vars

\* C12 witness: a library was imported that shares a member with an earlier
\* import, under the same structure, and the union holds each of its two or
\* more members once.
C12_Witness ==
    /\ ret.op = "import"
    /\ ret.ok
    /\ DOMAIN input.lib \cap input.held # {}
    /\ ~Clash
    /\ Len(pending) >= 2
    /\ Len(pending) = Cardinality(imported)

\* C13: an import never fails and never reports an error, whatever
\* references it leaves unresolved; only finalize ends the building, and
\* its outcome is determined by the set of imported types alone, whatever
\* the order of the imports: success exactly when no reference dangles,
\* otherwise the missing references, listed in ascending order of the
\* referring and then of the missing id.
C13_CheckAtFinalizeOnly ==
    /\ [](/\ outcome # "import_err"
          /\ outcome = "building" => errors = <<>>
          /\ outcome \in {"ok", "err"} =>
                /\ (outcome = "ok") = (Dangling = {})
                /\ {<<errors[i].ty, errors[i].missing>> : i \in 1..Len(errors)}
                      = Dangling
                /\ \A i \in 1..Len(errors), j \in 1..Len(errors) :
                      i < j => \/ errors[i].ty < errors[j].ty
                               \/ /\ errors[i].ty = errors[j].ty
                                  /\ errors[i].missing < errors[j].missing)
    /\ [][/\ ret'.op = "import" => (ret'.ok /\ outcome' = "building")
          /\ (outcome = "building" /\ outcome' # "building")
                => ret'.op = "finalize"]_vars

\* C13 witness: a library was imported before the one it depends on, and
\* the import of the latter left the union complete.
C13_Witness ==
    /\ outcome = "building"
    /\ ret.op = "import" /\ ret.ok
    /\ gap
    /\ Dangling = {}
    /\ \E t \in imported : refs[t] \ {t} # {}

\* ------------------------------------------------- TypeSystem: frame

\* The system built afresh from everything that was added, in the order it
\* was added.
FreshSys == InsertAll(AddLibs(EmptySys, libHist), hist)

\* C16: id(), count_types() and display leave the system as it is; id()
\* returns the id of the current content, which is the id of a system built
\* afresh with the same content, so that two calls with no insert in
\* between agree; count_types() and display report the current content too.
C16_ReadOnly ==
    /\ [][ret'.op \in {"id", "count_types", "display"} => sys' = sys]_vars
    /\ [][(ret.op = "id" /\ ret'.op = "id") => ret'.id = ret.id]_vars
    /\ [](/\ ret.op = "id" =>
                ret.id = Sha256(<<TagHash, TagHash>> \o sem_commit(FreshSys))
          /\ ret.op = "count_types" => ret.n = Cardinality(Range(hist))
          /\ ret.op = "display" =>
                /\ ret.id = Sha256(<<TagHash, TagHash>> \o sem_commit(FreshSys))
                /\ ret.lines = FreshSys.types
          /\ sys = FreshSys)

\* C16 witness: id() was called on a system of two members that were
\* inserted in descending order.
C16_Witness ==
    /\ ret.op = "id"
    /\ Len(hist) = 2 /\ hist[1] > hist[2]
    /\ ret.id = TypeSystem_id(sys)

\* ---------------------------------------------- library compiler: properties

\* C14: when a declared type of a symbolic library refers to a name that
\* neither the library nor a dependency declares, the build of the library
\* ends in an error that names such a name (the name itself when there is
\* one only), and no TypeLib is produced; a TypeLib is produced only when
\* there is no such reference.
C14_UndeclaredNameFails ==
    LET undeclared == {b \in Names : input.decl[b] = "none"
                                       /\ \E a \in Names : /\ input.decl[a] = "lib"
                                                           /\ b \in input.symRefs[a]}
    IN /\ (phase \in {"symbolic", "compiled", "failed"} /\ undeclared # {}) =>
             /\ phase = "failed"
             /\ ~output.ok
             /\ output.name \in undeclared
             /\ output.lib = <<>>
       /\ phase = "compiled" => undeclared = {} /\ output.ok /\ Len(output.lib) = 1

\* C14 witness: the build failed for a library in which one declared type
\* refers to one undeclared name, while another reference of it resolves.
C14_Witness ==
    /\ phase = "failed"
    /\ \E a, b, c \in Names :
          /\ input.decl[a] = "lib" /\ input.decl[b] = "none" /\ input.decl[c] = "dep"
          /\ b \in input.symRefs[a]
          /\ output.name = b

\* ------------------------------------------- TypeSysId: properties

\* What from_str hands the parser of the Baid58 crate is one piece written
\* by that crate for the id, under the format the Display mode names: the
\* prefix Display writes is the prefix from_str removes.
ParserInputIsRendering ==
    phase = "parsed" =>
        trim_start_matches(input.text, UrnPrefix)
            = Baid58Fmt(input.id,
                        CASE input.mode = "alternate" -> "mnemonic"
                          [] input.mode = "minus" -> "{:#}"
                          [] input.mode = "zero" -> "{::<}"
                          [] input.mode = "default" -> "{::<#}")

\* The texts that encode an id once the urn prefix is taken off: what the
\* Baid58 crate writes for the id.
ValidForms(bs) == {Baid58Fmt(bs, f) : f \in Baid58Formats}

\* A text with one leading urn prefix taken off, if it has one.
StripOnePrefix(t) ==
    IF StartsWith(t, UrnPrefix) THEN SubSeq(t, Len(UrnPrefix) + 1, Len(t)) ELSE t

\* C19: from_str yields an id only for a text that, with a single leading
\* urn prefix removed, is an encoding of that id; every other text, such as
\* one with the prefix twice, is rejected.
C19_RejectsMalformed ==
    (phase = "parsed" /\ output.ok)
        => StripOnePrefix(input.text) \in ValidForms(output.id)

\* ------------------------------------------------------ SymTy: properties

\* C17: SymTy::with panics exactly when it is given more distinct origin
\* library names than the documented limit, and otherwise keeps them all;
\* an unnamed type has no origin, a named type exactly one.
C17_OriginLimit ==
    phase = "done" =>
        /\ input.ctor = "with" =>
              /\ output.panic = (Cardinality(input.orig) > DocOrigLimit)
              /\ ~output.panic => output.orig = input.orig
        /\ input.ctor = "unnamed" => (~output.panic /\ output.orig = {})
        /\ input.ctor = "named" => (~output.panic /\ Cardinality(output.orig) = 1)

\* ------------------------------------------------------ Ident: properties

\* C20: Ident::try_from accepts a string exactly when its first character
\* is a letter and every character is a letter, a digit or "_"; otherwise
\* the error is NonAlphabetic with the first character when that is no
\* letter, whatever follows, and else InvalidChar with the leftmost
\* character that is neither letter, digit nor "_".
C20_IdentRule ==
    phase = "done" =>
        LET legal(c) == c \in Letters \cup Digits \cup {"_"}
        IN /\ output.ok = (input[1] \in Letters /\ \A i \in 1..Len(input) : legal(input[i]))
           /\ input[1] \notin Letters =>
                 (output.err = "NonAlphabetic" /\ output.ch = input[1])
           /\ (input[1] \in Letters /\ ~output.ok) =>
                 /\ output.err = "InvalidChar"
                 /\ \E k \in 1..Len(input) :
                       /\ output.ch = input[k]
                       /\ ~legal(input[k])
                       /\ \A i \in 1..(k - 1) : legal(input[i])

\* C20 witness: a string of the greatest length that starts with "_" or a
\* digit and ends with "-" was refused for its first character.
C20_Witness ==
    /\ phase = "done"
    /\ Len(input) = IdentMax
    /\ input[1] \in {"_", "7"}
    /\ input[IdentMax] = "-"
    /\ output.err = "NonAlphabetic"

\* ------------------------------------------------------- Size: properties

\* The true sum of a sequence of sizes: Variable when any is Variable,
\* else Fixed of the integer sum.
RECURSIVE TrueSum(_)
TrueSum(q) ==
    IF q = <<>> THEN Fixed(0)
    ELSE LET r == TrueSum(Tail(q))
         IN IF Head(q).kind = "Variable" \/ r.kind = "Variable" THEN Variable
            ELSE Fixed(Head(q).n + r.n)

\* C21: an addition or a sum of sizes never fails and gives the true sum:
\* Fixed of the integer sum when every operand is Fixed, with no wrap
\* modulo 2^16, Variable when any operand is Variable, Fixed(0) for the
\* empty sequence; and the result is at least every operand in the order
\* of sizes.
C21_ExactAddition ==
    phase = "done" =>
        /\ ~output.panic
        /\ output.size = TrueSum(input.sizes)
        /\ \A i \in 1..Len(input.sizes) : Size_le(input.sizes[i], output.size)

\* ------------------------------------------- layout: the loop invariant

\* C22: while the loop runs without failure, after an item at depth d >= 1
\* path has length d and leads, child index by child index, from the root
\* to the node of that item, so every index in it is valid; after a root
\* item path is empty; and the descent never meets an index without a
\* child, for any layout and either build.
C22_PathInvariant ==
    /\ status # "panic_inconsistency"
    /\ (status \in {"run", "ok"} /\ pos > 1) =>
          LET d == items[pos - 1].depth
          IN /\ Len(path) = d
             /\ root # None
             /\ Descend(content, root, path) = pos - 1
             /\ \A k \in 0..Len(path) :
                   Descend(content, root, SubSeq(path, 1, k)) # None
    /\ (status = "run" /\ pos = 1) => path = <<>>

\* C22 witness: the loop has just placed an item at depth 2 or more as a
\* second or later child, after the stack had been cut back from an item
\* at the same depth or deeper.
C22_Witness ==
    /\ status = "run"
    /\ pos > 3
    /\ items[pos - 1].depth >= 2
    /\ items[pos - 2].depth >= items[pos - 1].depth
    /\ Len(path) = items[pos - 1].depth
    /\ path[Len(path)] >= 1

====
